---- MODULE Spec2Model ----
(***************************************************************************)
(* Model of src/system/gsettings.py: the Gsettings class, which locates or *)
(* spawns a D-Bus session and stops the daemon it spawned on disposal, and *)
(* main(), which applies a list of {schema, key, value} triplets.          *)
(*                                                                         *)
(* Python semantics that the model keeps:                                  *)
(*  - an exception raised in __init__ or in main() is never caught in this *)
(*    file: it leaves main(), and the interpreter exits;                   *)
(*  - the instance exists as soon as __init__ starts (lines 143-144 run    *)
(*    first), so __del__ finds _cleanup and session_pid whenever it runs;  *)
(*  - `gs = None` (line 224) drops the last reference and runs __del__;    *)
(*    for an object still alive when the interpreter exits the language    *)
(*    does not promise that __del__ runs.                                  *)
(* The caller's own uid is taken to have a passwd entry (line 151), and   *)
(* the file runs under Python 2, as its str handling of the helper's       *)
(* output (lines 137-138) requires.                                        *)
(***************************************************************************)
EXTENDS Integers, Sequences, FiniteSets, TLC

\* ---------------------------------------------------------------- bounds
MaxProcs == 2      \* entries of the /proc listing
MaxLines == 2      \* lines printed by the dbus-launch helper
MaxSettings == 2   \* triplets of module.params['settings']

\* ------------------------------------------------------ program constants
ENV_DBUS == "DBUS_SESSION_BUS_ADDRESS"
ENV_PID == "DBUS_SESSION_BUS_PID"
SESSION_MANAGERS ==
    {"gnome-session", "mate-session", "xfce4-session",
     "cinnamon-session", "icewm-session", "openbox-session"}

\* ------------------------------------------------------------ value space
NoPid == -1        \* self.session_pid = -1
None == 0          \* Python None / an unset environment variable
OldPid == 77       \* pid of a bus daemon named by the inherited environment
OldAddr == 177     \* its address
NewPid == 99       \* pid of the daemon the helper spawns
NewAddr == 199     \* its address
HomeVal == 1       \* value of an unrelated variable
osuser == "me"     \* pwd.getpwuid(os.getuid()).pw_name

EnvVars == {ENV_DBUS, ENV_PID}
Owners == {"me", "other", "nouser"}   \* "nouser": uid without passwd entry

PidOf(n) == 10 + n          \* the n-th entry of the listing
AddrOf(p) == 100 + p        \* bus address of the session of process p

\* The environment block of a process: a sequence of KEY=VALUE entries.
EnvBlocks(p) ==
    { << [k |-> "HOME", v |-> HomeVal] >>,
      << [k |-> "HOME", v |-> HomeVal], [k |-> ENV_DBUS, v |-> AddrOf(p)] >> }

\* One entry of os.listdir('/proc').  isdigit = FALSE: an entry such as
\* "cpuinfo".  alive = FALSE: the process has exited, its files are gone.
\* Owner and environment are only distinguished for session managers.
ProcEntries(n) ==
    { [pid |-> PidOf(n), isdigit |-> FALSE, name |-> "bash", owner |-> "me",
       alive |-> TRUE, envReadable |-> TRUE,
       environ |-> << [k |-> "HOME", v |-> HomeVal] >>] }
    \cup
    { [pid |-> PidOf(n), isdigit |-> TRUE, name |-> "bash", owner |-> "me",
       alive |-> TRUE, envReadable |-> TRUE,
       environ |-> << [k |-> "HOME", v |-> HomeVal] >>] }
    \cup
    { [pid |-> PidOf(n), isdigit |-> TRUE, name |-> "gnome-session",
       owner |-> o, alive |-> TRUE, envReadable |-> r, environ |-> e] :
         o \in Owners, r \in BOOLEAN, e \in EnvBlocks(PidOf(n)) }

RECURSIVE ProcTables(_)
ProcTables(n) ==
    IF n = 0 THEN { << >> }
    ELSE LET shorter == ProcTables(n - 1)
         IN  shorter \cup
             { Append(t, e) : t \in { s \in shorter : Len(s) = n - 1 },
                              e \in ProcEntries(n) }

\* Lines the helper may print: the two assignments, or a line without '='.
AddrLine == [eq |-> TRUE, k |-> ENV_DBUS, v |-> NewAddr]
PidLine == [eq |-> TRUE, k |-> ENV_PID, v |-> NewPid]
JunkLine == [eq |-> FALSE, k |-> "", v |-> None]
HelperLines == {AddrLine, PidLine, JunkLine}

RECURSIVE HelperOutputs(_)
HelperOutputs(n) ==
    IF n = 0 THEN { << >> }
    ELSE LET shorter == HelperOutputs(n - 1)
         IN  shorter \cup
             { Append(t, l) : t \in { s \in shorter : Len(s) = n - 1 },
                              l \in HelperLines }

\* Values of settings, as a type tag and a payload: booleans, and a string.
B0 == [t |-> "b", v |-> 0]
B1 == [t |-> "b", v |-> 1]
S1 == [t |-> "s", v |-> 1]
Values == {B0, B1, S1}

\* The schema argument of a triplet, as its pieces between ':' characters.
SchemaArgs ==
    { << "org.a" >>, << "org.r", "/p/" >>, << "org.r", "/p/", "x/" >>,
      << "org.none" >> }
Keys == {"k"}
Triplets == [schema : SchemaArgs, key : Keys, value : Values]

RECURSIVE Batches(_)
Batches(n) ==
    IF n = 0 THEN { << >> }
    ELSE LET shorter == Batches(n - 1)
         IN  shorter \cup
             { Append(b, t) : b \in { s \in shorter : Len(s) = n - 1 },
                              t \in Triplets }

\* The settings the configuration store holds: << schema, path, key >>,
\* the path being None for a schema with a fixed path.
NoPath == << >>
Locations == { << "org.a", NoPath, "k" >>, << "org.r", << "/p/" >>, "k" >> }
Stores == [Locations -> {B0, S1}]

\* ------------------------------------------------------------------ state
VARIABLES
    pc,           \* position of the interpreter
    HAS_GIO,      \* lines 85-89
    procs,        \* the /proc listing read by __init__, in listdir order
    os_environ,   \* os.environ: ENV_DBUS and ENV_PID, None when unset
    i,            \* position of the scan loop (line 146)
    session_pid,  \* self.session_pid
    _cleanup,     \* self._cleanup
    sessionuser,  \* local of __init__ (lines 153/155)
    bus,          \* self.bus: TRUE once Gio.bus_get_sync returned
    err,          \* the exception that left __init__ or main, "" if none
    ret,          \* where control continues after __del__
    launched,     \* number of calls of new_session
    spawned,      \* pid of the daemon the helper spawned, None if none
    reported,     \* the variables the helper's output assigned
    envread,      \* pids whose environ file __init__ opened
    waits,        \* completed time.sleep(1) calls of __del__
    signals,      \* pids sent SIGTERM by __del__, in order
    settings,     \* module.params['settings']
    check_mode,   \* module.check_mode
    k,            \* position of the loop of main (line 208)
    store,        \* the configuration store behind the bus
    has_changed,  \* local of main
    change_msgs,  \* the module-level list of change descriptions
    ops,          \* get_value / set_value calls that returned, in order
    store0        \* the store's contents when main first looked at it

life == << procs, os_environ, i, session_pid, _cleanup, sessionuser, bus,
           launched, spawned, reported, envread >>
batch == << settings, check_mode, k, store, has_changed, change_msgs, ops,
            store0 >>
vars == << pc, HAS_GIO, err, ret, waits, signals, life, batch >>

\* -------------------------------------------------- helpers of __init__
\* Variant of proc_name that still answers for a process that is gone.
proc_name_stale(p) == p.name

\* proc_name: the Name field, None when the status file cannot be read.
proc_name(p) == IF p.alive THEN p.name ELSE "None"

\* proc_owner: the user name of the process's uid.  Not guarded: a missing
\* status file raises IOError, a uid without passwd entry raises KeyError.
proc_owner(p) ==
    IF ~p.alive THEN [exc |-> "IOError", val |-> ""]
    ELSE IF p.owner = "nouser" THEN [exc |-> "KeyError", val |-> ""]
    ELSE [exc |-> "", val |-> p.owner]

\* The value of the first entry of an environment block whose key is
\* varname; None when no entry has that key.
RECURSIVE FirstValue(_, _)
FirstValue(block, varname) ==
    IF block = << >> THEN None
    ELSE IF Head(block).k = varname THEN Head(block).v
    ELSE FirstValue(Tail(block), varname)

\* proc_environ: opening the file raises IOError when the process is gone
\* or the caller may not read it.
proc_environ(p, varname) ==
    IF ~p.alive \/ ~p.envReadable THEN [exc |-> "IOError", val |-> None]
    ELSE [exc |-> "", val |-> FirstValue(p.environ, varname)]

\* Variant of bus_address that asks for the wrong variable.
bus_address_pidVar(p) == proc_environ(p, ENV_PID)

bus_address(p) == proc_environ(p, ENV_DBUS)

\* The loop of new_session (lines 136-139) over the helper's output:
\* every line is split at '=' and installed; a line without '=' raises
\* ValueError and leaves the assignments made so far in place.
RECURSIVE InstallLines(_, _)
InstallLines(env, out) ==
    IF out = << >> THEN [exc |-> "", env |-> env]
    ELSE IF ~Head(out).eq THEN [exc |-> "ValueError", env |-> env]
    ELSE InstallLines([env EXCEPT ![Head(out).k] = Head(out).v], Tail(out))

\* new_session: started = FALSE is a helper that cannot be run (OSError).
\* The pid returned is whatever os.environ holds under ENV_PID afterwards.
new_session(env, started, out) ==
    IF ~started THEN [exc |-> "OSError", env |-> env, val |-> None]
    ELSE LET r == InstallLines(env, out)
         IN  IF r.exc # "" THEN [exc |-> r.exc, env |-> r.env, val |-> None]
             ELSE IF r.env[ENV_PID] = None
                  THEN [exc |-> "KeyError", env |-> r.env, val |-> None]
             ELSE [exc |-> "", env |-> r.env, val |-> r.env[ENV_PID]]

\* The entry of the listing with the given pid.
ProcOfPid(pid) == procs[CHOOSE n \in 1..Len(procs) : procs[n].pid = pid]

\* ------------------------------------------------------------------- Init
Init ==
    /\ pc = "import"
    /\ HAS_GIO = TRUE
    /\ procs \in ProcTables(MaxProcs)
    /\ os_environ \in { [v \in EnvVars |-> None],
                        [v \in EnvVars |->
                            IF v = ENV_DBUS THEN OldAddr ELSE OldPid] }
    /\ i = 1
    /\ session_pid = NoPid
    /\ _cleanup = FALSE
    /\ sessionuser = ""
    /\ bus = FALSE
    /\ err = ""
    /\ ret = ""
    /\ launched = 0
    /\ spawned = None
    /\ reported = {}
    /\ envread = {}
    /\ waits = 0
    /\ signals = << >>
    /\ settings = << >>
    /\ check_mode = FALSE
    /\ k = 1
    /\ store = [l \in Locations |-> B0]
    /\ has_changed = FALSE
    /\ change_msgs = << >>
    /\ ops = << >>
    /\ store0 = [l \in Locations |-> B0]

\* ---------------------------------------------------------------- actions
\* Lines 85-89: the import of gi.repository succeeds or not.
Import ==
    /\ pc = "import"
    /\ \E h \in BOOLEAN : HAS_GIO' = h
    /\ pc' = "main"
    /\ UNCHANGED << procs, os_environ, i, session_pid, _cleanup, sessionuser,
                    bus, err, ret, launched, spawned, reported, envread,
                    waits, signals, batch >>

\* Lines 203-204: without Gio main fails before any instance exists.
FailNoGio ==
    /\ pc = "main"
    /\ ~HAS_GIO
    /\ pc' = "done"
    /\ err' = "fail_json"
    /\ UNCHANGED << HAS_GIO, procs, os_environ, i, session_pid, _cleanup,
                    sessionuser, bus, ret, launched, spawned, reported,
                    envread, waits, signals, batch >>

\* Line 206 entering __init__, lines 143-144.
InitEnter ==
    /\ pc = "main"
    /\ HAS_GIO
    /\ session_pid' = NoPid
    /\ _cleanup' = FALSE
    /\ i' = 1
    /\ pc' = "scan"
    /\ UNCHANGED << HAS_GIO, procs, os_environ, sessionuser, bus, err, ret,
                    launched, spawned, reported, envread, waits, signals,
                    batch >>

\* A listed process exits while __init__ is still reading /proc.
ProcExit ==
    /\ pc \in {"scan", "owner", "choice"}
    /\ \E n \in 1..Len(procs) :
         /\ procs[n].isdigit
         /\ procs[n].alive
         /\ procs' = [procs EXCEPT ![n].alive = FALSE]
    /\ UNCHANGED << pc, HAS_GIO, os_environ, i, session_pid, _cleanup,
                    sessionuser, bus, err, ret, launched, spawned, reported,
                    envread, waits, signals, batch >>

\* Variant of ScanStep that takes any numeric entry for a session manager.
ScanStep_anyName ==
    /\ pc = "scan"
    /\ i <= Len(procs)
    /\ session_pid' = IF procs[i].isdigit THEN procs[i].pid ELSE session_pid
    /\ i' = i + 1
    /\ UNCHANGED << pc, HAS_GIO, err, ret, waits, signals, procs,
                    os_environ, _cleanup, sessionuser, bus, launched,
                    spawned, reported, envread, batch >>

\* Variant of ScanStep that stops assigning after the first match.
ScanStep_keepFirst ==
    /\ pc = "scan"
    /\ i <= Len(procs)
    /\ session_pid' =
          IF /\ session_pid = NoPid
             /\ procs[i].isdigit
             /\ proc_name(procs[i]) \in SESSION_MANAGERS
          THEN procs[i].pid
          ELSE session_pid
    /\ i' = i + 1
    /\ UNCHANGED << pc, HAS_GIO, err, ret, waits, signals, procs,
                    os_environ, _cleanup, sessionuser, bus, launched,
                    spawned, reported, envread, batch >>

\* Lines 146-149, one iteration: every numeric entry whose name is a known
\* session manager is assigned to session_pid.
ScanStep ==
    /\ pc = "scan"
    /\ i <= Len(procs)
    /\ session_pid' =
          IF procs[i].isdigit /\ proc_name(procs[i]) \in SESSION_MANAGERS
          THEN procs[i].pid
          ELSE session_pid
    /\ i' = i + 1
    /\ UNCHANGED << pc, HAS_GIO, procs, os_environ, _cleanup, sessionuser,
                    bus, err, ret, launched, spawned, reported, envread,
                    waits, signals, batch >>

\* Lines 146-149: the listing is exhausted.
ScanDone ==
    /\ pc = "scan"
    /\ i > Len(procs)
    /\ pc' = "owner"
    /\ UNCHANGED << HAS_GIO, procs, os_environ, i, session_pid, _cleanup,
                    sessionuser, bus, err, ret, launched, spawned, reported,
                    envread, waits, signals, batch >>

\* Lines 151-155.
ResolveOwner ==
    /\ pc = "owner"
    /\ IF session_pid # NoPid
       THEN LET r == proc_owner(ProcOfPid(session_pid))
            IN  IF r.exc # ""
                THEN /\ err' = r.exc
                     /\ pc' = "raised"
                     /\ UNCHANGED sessionuser
                ELSE /\ sessionuser' = r.val
                     /\ pc' = "choice"
                     /\ UNCHANGED err
       ELSE /\ sessionuser' = osuser
            /\ pc' = "choice"
            /\ UNCHANGED err
    /\ UNCHANGED << HAS_GIO, procs, os_environ, i, session_pid, _cleanup, bus,
                    ret, launched, spawned, reported, envread, waits, signals,
                    batch >>

\* Variant of Reuse that does not compare the owner with the caller.
Reuse_anyOwner ==
    /\ pc = "choice"
    /\ session_pid # NoPid
    /\ envread' = envread \cup {session_pid}
    /\ LET r == bus_address(ProcOfPid(session_pid))
       IN  IF r.exc # ""
           THEN /\ err' = r.exc
                /\ pc' = "raised"
                /\ UNCHANGED os_environ
           ELSE IF r.val = None
           THEN /\ err' = "TypeError"
                /\ pc' = "raised"
                /\ UNCHANGED os_environ
           ELSE /\ os_environ' = [os_environ EXCEPT ![ENV_DBUS] = r.val]
                /\ pc' = "bus"
                /\ UNCHANGED err
    /\ UNCHANGED << HAS_GIO, ret, waits, signals, procs, i, session_pid,
                    _cleanup, sessionuser, bus, launched, spawned, reported,
                    batch >>

\* Lines 158-159: reuse the session of the candidate.  os.environ accepts
\* only strings: assigning None raises TypeError.
Reuse ==
    /\ pc = "choice"
    /\ session_pid # NoPid /\ osuser = sessionuser
    /\ envread' = envread \cup {session_pid}
    /\ LET r == bus_address(ProcOfPid(session_pid))
       IN  IF r.exc # ""
           THEN /\ err' = r.exc
                /\ pc' = "raised"
                /\ UNCHANGED os_environ
           ELSE IF r.val = None
           THEN /\ err' = "TypeError"
                /\ pc' = "raised"
                /\ UNCHANGED os_environ
           ELSE /\ os_environ' = [os_environ EXCEPT ![ENV_DBUS] = r.val]
                /\ pc' = "bus"
                /\ UNCHANGED err
    /\ UNCHANGED << HAS_GIO, procs, i, session_pid, _cleanup, sessionuser,
                    bus, ret, launched, spawned, reported, waits, signals,
                    batch >>

\* Lines 160-162: no candidate, or a candidate of another user.  The helper
\* either cannot be run, or runs, possibly spawns a daemon, and prints some
\* lines; only a helper that spawned a daemon has its address or pid to
\* print.  _cleanup is set only after new_session has returned.
Spawn ==
    /\ pc = "choice"
    /\ ~(session_pid # NoPid /\ osuser = sessionuser)
    /\ launched' = launched + 1
    /\ \E started \in BOOLEAN, daemon \in BOOLEAN,
          out \in HelperOutputs(MaxLines) :
         /\ ~started => (~daemon /\ out = << >>)
         /\ ~daemon => \A n \in 1..Len(out) : out[n] = JunkLine
         /\ spawned' = IF daemon THEN NewPid ELSE spawned
         /\ reported' = { out[n].k : n \in { m \in 1..Len(out) : out[m].eq } }
         /\ LET r == new_session(os_environ, started, out)
            IN  /\ os_environ' = r.env
                /\ IF r.exc # ""
                   THEN /\ err' = r.exc
                        /\ pc' = "raised"
                        /\ UNCHANGED << session_pid, _cleanup >>
                   ELSE /\ session_pid' = r.val
                        /\ _cleanup' = TRUE
                        /\ pc' = "bus"
                        /\ UNCHANGED err
    /\ UNCHANGED << HAS_GIO, procs, i, sessionuser, bus, ret, envread, waits,
                    signals, batch >>

\* Line 164: Gio.bus_get_sync returns a connection or raises GLib.Error.
BusConnect ==
    /\ pc = "bus"
    /\ \E ok \in BOOLEAN :
         IF ok
         THEN /\ bus' = TRUE
              /\ pc' = "init_end"
              /\ UNCHANGED err
         ELSE /\ err' = "GLib.Error"
              /\ pc' = "raised"
              /\ UNCHANGED bus
    /\ UNCHANGED << HAS_GIO, procs, os_environ, i, session_pid, _cleanup,
                    sessionuser, ret, launched, spawned, reported, envread,
                    waits, signals, batch >>

\* ------------------------------------------------------ helpers of main
\* Lines 168-172 and 178-182: the schema argument is split at every ':';
\* piece 0 is the schema and piece 1 the path.
SplitSchema(arg) ==
    [schema |-> arg[1],
     path |-> IF Len(arg) > 1 THEN << arg[2] >> ELSE NoPath]

Location(arg, key) ==
    << SplitSchema(arg).schema, SplitSchema(arg).path, key >>

\* Python's == between an unpacked value and a desired value: numbers
\* (bool is a number) compare by value, a string equals only a string.
PyEq(a, b) ==
    IF a.t = "s" \/ b.t = "s" THEN a = b ELSE a.v = b.v

\* GLib.Variant(setting_type, value), line 221: a boolean setting takes the
\* truth of the value, a string setting takes only a string (TypeError).
Variant(setting_type, value) ==
    IF setting_type = "b"
    THEN [exc |-> "", val |-> IF value.v # 0 THEN B1 ELSE B0]
    ELSE IF value.t = "s" THEN [exc |-> "", val |-> value]
    ELSE [exc |-> "TypeError", val |-> value]

\* One call of get_value (lines 166-174) or set_value (lines 176-184) for
\* the j-th triplet, with the setting it reached and the value passed.
GetOp(j, loc, val) == [op |-> "get", j |-> j, loc |-> loc, val |-> val]
SetOp(j, loc, val) == [op |-> "set", j |-> j, loc |-> loc, val |-> val]

\* Lines 219 and 223: the description of one change.
ChangeMsg(t, old_value, kind) ==
    [schema |-> t.schema, key |-> t.key, old |-> old_value,
     new |-> t.value, kind |-> kind]

\* Line 206: __init__ returns and gs is bound.  The locals of __init__ and
\* its view of /proc are gone; nothing reads /proc again.
InitReturn ==
    /\ pc = "init_end"
    /\ procs' = << >>
    /\ i' = 1
    /\ sessionuser' = ""
    /\ pc' = "params"
    /\ UNCHANGED << HAS_GIO, err, ret, waits, signals, os_environ,
                    session_pid, _cleanup, bus, launched, spawned, reported,
                    envread, batch >>

\* Line 207.  The parameters and the store's contents are first looked at
\* here, so they are chosen here.
ReadParams ==
    /\ pc = "params"
    /\ settings' \in Batches(MaxSettings)
    /\ check_mode' \in BOOLEAN
    /\ store' \in Stores
    /\ store0' = store'
    /\ k' = 1
    /\ pc' = "loop"
    /\ UNCHANGED << HAS_GIO, err, ret, waits, signals, life, has_changed,
                    change_msgs, ops >>

\* Lines 212, 173-174: Gio.Settings on a schema, path or key that does not
\* exist ends the process inside the library; no Python code runs after it.
GetAbort ==
    /\ pc = "loop"
    /\ k <= Len(settings)
    /\ Location(settings[k].schema, settings[k].key) \notin DOMAIN store
    /\ err' = "abort"
    /\ pc' = "done"
    /\ UNCHANGED << HAS_GIO, ret, waits, signals, life, batch >>

\* Variant of Same that records a change although nothing differs.
Same_records ==
    /\ pc = "loop"
    /\ k <= Len(settings)
    /\ Location(settings[k].schema, settings[k].key) \in DOMAIN store
    /\ LET old_value == store[Location(settings[k].schema, settings[k].key)]
       IN  /\ PyEq(old_value, settings[k].value)
           /\ has_changed' = TRUE
           /\ change_msgs' =
                 Append(change_msgs, ChangeMsg(settings[k], old_value, "new"))
           /\ ops' = Append(ops, GetOp(k, Location(settings[k].schema,
                                                   settings[k].key),
                                       old_value))
    /\ k' = k + 1
    /\ UNCHANGED << pc, HAS_GIO, err, ret, waits, signals, life, settings,
                    check_mode, store, store0 >>

\* Lines 209-216: the current value equals the desired value.
Same ==
    /\ pc = "loop"
    /\ k <= Len(settings)
    /\ Location(settings[k].schema, settings[k].key) \in DOMAIN store
    /\ PyEq(store[Location(settings[k].schema, settings[k].key)],
            settings[k].value)
    /\ ops' = Append(ops, GetOp(k, Location(settings[k].schema,
                                            settings[k].key),
                                store[Location(settings[k].schema,
                                               settings[k].key)]))
    /\ k' = k + 1
    /\ UNCHANGED << pc, HAS_GIO, err, ret, waits, signals, life, settings,
                    check_mode, store, has_changed, change_msgs, store0 >>

\* Variant of Propose that writes the value as apply mode does.
Propose_writes ==
    /\ pc = "loop"
    /\ k <= Len(settings)
    /\ Location(settings[k].schema, settings[k].key) \in DOMAIN store
    /\ LET loc == Location(settings[k].schema, settings[k].key)
           old_value == store[loc]
       IN  /\ ~PyEq(old_value, settings[k].value)
           /\ check_mode
           /\ has_changed' = TRUE
           /\ store' = [store EXCEPT ![loc] =
                            Variant("b", settings[k].value).val]
           /\ change_msgs' =
                 Append(change_msgs,
                        ChangeMsg(settings[k], old_value, "proposed new"))
           /\ ops' = Append(ops, GetOp(k, loc, old_value))
    /\ k' = k + 1
    /\ UNCHANGED << pc, HAS_GIO, err, ret, waits, signals, life, settings,
                    check_mode, store0 >>

\* Lines 216-219: check mode records the proposed change.
Propose ==
    /\ pc = "loop"
    /\ k <= Len(settings)
    /\ Location(settings[k].schema, settings[k].key) \in DOMAIN store
    /\ LET old_value == store[Location(settings[k].schema, settings[k].key)]
       IN  /\ ~PyEq(old_value, settings[k].value)
           /\ check_mode
           /\ has_changed' = TRUE
           /\ change_msgs' =
                 Append(change_msgs,
                        ChangeMsg(settings[k], old_value, "proposed new"))
           /\ ops' = Append(ops, GetOp(k, Location(settings[k].schema,
                                                   settings[k].key),
                                       old_value))
    /\ k' = k + 1
    /\ UNCHANGED << pc, HAS_GIO, err, ret, waits, signals, life, settings,
                    check_mode, store, store0 >>

\* Lines 216-223: apply mode encodes the value with the type of the current
\* one and writes it; a value that cannot be encoded raises TypeError, after
\* has_changed was set.
Apply ==
    /\ pc = "loop"
    /\ k <= Len(settings)
    /\ Location(settings[k].schema, settings[k].key) \in DOMAIN store
    /\ LET loc == Location(settings[k].schema, settings[k].key)
           old_value == store[loc]
           new_value == Variant(old_value.t, settings[k].value)
       IN  /\ ~PyEq(old_value, settings[k].value)
           /\ ~check_mode
           /\ has_changed' = TRUE
           /\ IF new_value.exc # ""
              THEN /\ err' = new_value.exc
                   /\ pc' = "raised"
                   /\ ops' = Append(ops, GetOp(k, loc, old_value))
                   /\ UNCHANGED << store, change_msgs, k >>
              ELSE /\ store' = [store EXCEPT ![loc] = new_value.val]
                   /\ change_msgs' =
                         Append(change_msgs,
                                ChangeMsg(settings[k], old_value, "new"))
                   /\ ops' = ops \o << GetOp(k, loc, old_value),
                                       SetOp(k, loc, new_value.val) >>
                   /\ k' = k + 1
                   /\ UNCHANGED << pc, err >>
    /\ UNCHANGED << HAS_GIO, ret, waits, signals, life, settings, check_mode,
                    store0 >>

\* Line 224: `gs = None` drops the last reference; __del__ runs.
Dispose ==
    /\ pc = "loop"
    /\ k > Len(settings)
    /\ pc' = "del"
    /\ ret' = "exit"
    /\ UNCHANGED << HAS_GIO, err, waits, signals, life, batch >>

\* Line 225: exit_json reports the result and ends the process.
ExitJson ==
    /\ pc = "exit"
    /\ pc' = "done"
    /\ UNCHANGED << HAS_GIO, err, ret, waits, signals, life, batch >>

\* An exception left main: the interpreter exits with the instance still
\* referenced; __del__ runs during shutdown, or does not run at all.
Finalize ==
    /\ pc = "raised"
    /\ \E runs \in BOOLEAN :
         IF runs THEN pc' = "del" /\ ret' = "done"
                 ELSE pc' = "done" /\ UNCHANGED ret
    /\ UNCHANGED << HAS_GIO, err, waits, signals, life, batch >>

\* ------------------------------------------------------------- __del__
\* Variant of DelEnter without the test of _cleanup.
DelEnter_always ==
    /\ pc = "del"
    /\ pc' = "sleep"
    /\ UNCHANGED << HAS_GIO, err, ret, waits, signals, life, batch >>

\* Variant of DelEnter that goes to os.kill without the sleep.
DelEnter_noSleep ==
    /\ pc = "del"
    /\ pc' = IF _cleanup THEN "kill" ELSE ret
    /\ UNCHANGED << HAS_GIO, err, ret, waits, signals, life, batch >>

\* Line 188.
DelEnter ==
    /\ pc = "del"
    /\ pc' = IF _cleanup THEN "sleep" ELSE ret
    /\ UNCHANGED << HAS_GIO, err, ret, waits, signals, life, batch >>

\* Line 190.
DelSleep ==
    /\ pc = "sleep"
    /\ waits' = waits + 1
    /\ pc' = "kill"
    /\ UNCHANGED << HAS_GIO, err, ret, signals, life, batch >>

\* Line 191.
DelKill ==
    /\ pc = "kill"
    /\ signals' = Append(signals, session_pid)
    /\ pc' = ret
    /\ UNCHANGED << HAS_GIO, err, ret, waits, life, batch >>

\* ------------------------------------------------------------------- Next
Next ==
    \/ Import
    \/ FailNoGio
    \/ InitEnter
    \/ ProcExit
    \/ ScanStep
    \/ ScanDone
    \/ ResolveOwner
    \/ Reuse
    \/ Spawn
    \/ BusConnect
    \/ InitReturn
    \/ ReadParams
    \/ GetAbort
    \/ Same
    \/ Propose
    \/ Apply
    \/ Dispose
    \/ ExitJson
    \/ Finalize
    \/ DelEnter
    \/ DelSleep
    \/ DelKill

Spec == Init /\ [][Next]_vars

\* ============================================================ properties
\* Numeric entries of the listing that are known session managers.
Managers == { n \in 1..Len(procs) :
                procs[n].isdigit /\ procs[n].name \in SESSION_MANAGERS }
AllAlive == \A n \in 1..Len(procs) : procs[n].alive
\* Exceptions new_session can raise, and the one of Gio.bus_get_sync.
LaunchErrors == {"OSError", "ValueError", "KeyError"}
\* __init__ was left by an exception.
InitFailed == /\ ~bus
              /\ pc \in {"raised", "del", "sleep", "kill", "done"}
              /\ err # "fail_json"
\* __init__ has chosen between reuse and spawn and did not fail.
Resolved == pc \in {"bus", "init_end"}
Count(seq, x) == Cardinality({ n \in 1..Len(seq) : seq[n] = x })

\* C1: __del__ sends SIGTERM only when _cleanup is true; in a run that
\* reused an existing session (_cleanup false) no signal is ever sent.
C1_SignalOnlyIfEphemeral ==
    /\ pc \in {"sleep", "kill"} => _cleanup
    /\ ~_cleanup => (signals = << >> /\ waits = 0)

\* C1 witness: a reused session was disposed of and nothing was signalled.
C1_Witness ==
    /\ pc = "exit"
    /\ ~_cleanup /\ session_pid # NoPid /\ envread = {session_pid}
    /\ signals = << >>

\* C9: every SIGTERM sent by __del__ comes after a completed sleep of the
\* same disposal: the sleep is never skipped and never follows the signal.
C9_SleepBeforeSignal ==
    /\ Len(signals) <= waits
    /\ pc = "kill" => waits = Len(signals) + 1
    /\ pc = "sleep" => waits = Len(signals)

\* C9 witness: an ephemeral daemon was signalled after the sleep.
C9_Witness == _cleanup /\ waits = 1 /\ signals = << session_pid >>

\* C3: a listing without any known session manager selects no candidate
\* and takes the spawn path: new_session is called, no environ file is
\* read, and __init__ ends connected with _cleanup true; it can only end
\* otherwise by an exception of new_session or of the bus connection.
C3_NoManagerSpawns ==
    Managers = {} =>
        /\ pc \in {"owner", "choice"} => session_pid = NoPid
        /\ Resolved => (launched = 1 /\ _cleanup /\ envread = {})
        /\ pc = "init_end" => bus
        /\ InitFailed =>
              (launched = 1 /\ err \in LaunchErrors \cup {"GLib.Error"})

\* C3 witness: a non-empty listing without session manager, connected
\* through a spawned daemon.
C3_Witness ==
    /\ procs # << >> /\ Managers = {}
    /\ \E n \in 1..Len(procs) : procs[n].isdigit
    /\ pc = "init_end" /\ bus /\ _cleanup /\ launched = 1

\* C5: when the selected session manager belongs to another user, __init__
\* takes the spawn path whether or not that process's environment can be
\* read: no environ file is opened, no listed process's address is
\* installed, and __init__ ends with _cleanup true unless new_session or the
\* bus connection raises.
C5_OtherOwnerSpawns ==
    (sessionuser # "" /\ sessionuser # osuser) =>
        /\ envread = {}
        /\ \A n \in 1..Len(procs) :
              os_environ[ENV_DBUS] # AddrOf(procs[n].pid)
        /\ Resolved => (launched = 1 /\ _cleanup)
        /\ pc = "init_end" => bus
        /\ InitFailed =>
              (launched = 1 /\ err \in LaunchErrors \cup {"GLib.Error"})

\* C5 witness: the candidate of another user had a readable environment
\* holding a bus address, and __init__ still connected through a spawned
\* daemon.
C5_Witness ==
    /\ pc = "init_end" /\ bus /\ _cleanup /\ sessionuser = "other"
    /\ \E n \in Managers :
          /\ procs[n].owner = "other" /\ procs[n].alive
          /\ bus_address(procs[n]).exc = ""
          /\ bus_address(procs[n]).val # None

\* C5 witness, second case: the same with an unreadable environment.
C5_WitnessUnreadable ==
    /\ pc = "init_end" /\ bus /\ _cleanup /\ sessionuser = "other"
    /\ \E n \in Managers :
          /\ procs[n].owner = "other" /\ procs[n].alive
          /\ ~procs[n].envReadable

\* The listing holds exactly one known session manager, owned by the
\* caller, and that process has not exited.
OneOwnManager ==
    /\ Cardinality(Managers) = 1
    /\ \A n \in Managers : procs[n].owner = osuser /\ procs[n].alive
\* What construction has to have done to reuse the session of entry n.
Reused(n) ==
    /\ os_environ[ENV_DBUS] = AddrOf(procs[n].pid)
    /\ session_pid = procs[n].pid
    /\ launched = 0
    /\ ~_cleanup

\* C4 as stated: with exactly one known session manager, owned by the
\* caller, construction installs that process's bus address, does not call
\* the launcher and leaves _cleanup false.
C4_AsStated ==
    (OneOwnManager /\ (Resolved \/ InitFailed)) =>
        \A n \in Managers : Reused(n)

\* C4 amended: the same, for a session manager whose environment can be
\* read and holds the bus address variable: its address is installed, the
\* launcher is not called, _cleanup stays false, and only the bus connection
\* can still fail.
C4_ReusesOwnSession ==
    (/\ OneOwnManager
     /\ \A n \in Managers :
           /\ procs[n].envReadable
           /\ FirstValue(procs[n].environ, ENV_DBUS) # None) =>
        /\ (Resolved \/ InitFailed) => \A n \in Managers : Reused(n)
        /\ pc = "init_end" => bus
        /\ InitFailed => err = "GLib.Error"

\* C4 witness: connected over the address of the caller's own session.
C4_Witness ==
    /\ OneOwnManager
    /\ pc = "init_end" /\ bus
    /\ \A n \in Managers : Reused(n) /\ envread = {procs[n].pid}

\* Position of the first, and of the last, session manager of the listing
\* (0 when there is none).
FirstManager ==
    IF Managers = {} THEN 0
    ELSE CHOOSE n \in Managers : \A m \in Managers : n <= m
LastManager ==
    IF Managers = {} THEN 0
    ELSE CHOOSE n \in Managers : \A m \in Managers : m <= n

C2_EphemeralIffSpawned ==
    /\ _cleanup <=> (spawned # None /\ session_pid = spawned)
    /\ \A n \in 1..Len(signals) : spawned # None /\ signals[n] = spawned

\* The candidate's environment was opened and gave no bus address: the
\* file could not be read, or the variable is not in it.
EnvReadFailed ==
    /\ pc \in {"bus", "init_end", "raised", "del", "sleep", "kill", "done"}
    /\ procs # << >>
    /\ envread # {}
    /\ \A q \in envread :
          \/ bus_address(ProcOfPid(q)).exc # ""
          \/ bus_address(ProcOfPid(q)).val = None

\* C7: when the caller's own candidate gives no bus address, construction
\* falls back to the launcher: new_session is called, and construction ends
\* with _cleanup true unless new_session itself (or the bus connection
\* after it) fails.
C7_FallbackOnEnvFailure ==
    EnvReadFailed =>
        /\ launched = 1
        /\ Resolved => _cleanup
        /\ InitFailed => err \in LaunchErrors \cup {"GLib.Error"}

\* C8: when the helper cannot be run, or its output does not assign both
\* the bus address and the daemon's pid, new_session fails and __init__ is
\* left by its exception: no connection is made and main never reaches the
\* settings.
C8_LauncherFailureAborts ==
    (launched > 0 /\ reported # EnvVars) =>
        /\ ~bus
        /\ pc \in {"raised", "del", "sleep", "kill", "done"}
        /\ err \in LaunchErrors
        /\ k = 1 /\ settings = << >>

\* C10: a daemon spawned by new_session is sent SIGTERM exactly once on
\* every way out of the run: never twice, and once the run is over never
\* zero times.
C10_SignalledExactlyOnce ==
    spawned # None =>
        /\ Count(signals, spawned) <= 1
        /\ pc = "done" => Count(signals, spawned) = 1

\* ------------------------------------------------ properties of the batch
\* The j-th triplet was read, was written, and the value its read returned.
HasGet(j) == \E n \in 1..Len(ops) : ops[n].op = "get" /\ ops[n].j = j
HasSet(j) == \E n \in 1..Len(ops) : ops[n].op = "set" /\ ops[n].j = j
ReadVal(j) ==
    ops[CHOOSE n \in 1..Len(ops) : ops[n].op = "get" /\ ops[n].j = j].val
\* The current value of the j-th triplet differed from its desired value.
Differs(j) == HasGet(j) /\ ~PyEq(ReadVal(j), settings[j].value)
\* main went through the whole list and is at, or past, line 224.
Completed == /\ bus /\ err = ""
             /\ pc \in {"del", "sleep", "kill", "exit", "done"}

\* C11: in apply mode a triplet whose desired value differs from the
\* current value is applied with changed = true, and the same triplet
\* applied again right after it finds nothing to change and writes nothing.
C11_ApplyIdempotent ==
    ~check_mode =>
        \A j \in 1..Len(settings) :
            Differs(j) =>
                /\ k > j /\ has_changed /\ HasSet(j)
                /\ (/\ j < Len(settings)
                    /\ settings[j + 1] = settings[j]
                    /\ HasGet(j + 1)) =>
                       (~Differs(j + 1) /\ ~HasSet(j + 1))

\* The change descriptions main must have produced for triplets 1..n, from
\* the values their reads returned.
RECURSIVE ExpectedMsgs(_)
ExpectedMsgs(n) ==
    IF n = 0 THEN << >>
    ELSE IF Differs(n)
         THEN Append(ExpectedMsgs(n - 1),
                     ChangeMsg(settings[n], ReadVal(n),
                               IF check_mode THEN "proposed new" ELSE "new"))
         ELSE ExpectedMsgs(n - 1)

\* C12: in check mode the store is never written: it keeps the contents it
\* had before the run and no set_value call is made; a completed run has
\* recorded every differing triplet as a proposed change and reports
\* changed = true when there is one.
C12_CheckModeWritesNothing ==
    check_mode =>
        /\ store = store0
        /\ \A n \in 1..Len(ops) : ops[n].op = "get"
        /\ Completed =>
              /\ change_msgs = ExpectedMsgs(Len(settings))
              /\ \A n \in 1..Len(change_msgs) :
                    change_msgs[n].kind = "proposed new"
              /\ has_changed <=> \E j \in 1..Len(settings) : Differs(j)

\* C12 witness: a completed check-mode run that proposed a change.
C12_Witness ==
    /\ check_mode /\ Completed /\ pc = "exit"
    /\ has_changed /\ Len(change_msgs) >= 1
    /\ store = store0

\* C13: for a completed run changed is true exactly when some triplet's
\* current value differed from its desired value, and the change
\* descriptions are one per differing triplet, in input order, none for a
\* triplet that already had its value.  The same holds of every prefix of
\* the list while main is in its loop.
C13_ChangedAndMessages ==
    (bus /\ err = "" /\ pc \in {"loop", "del", "sleep", "kill", "exit", "done"})
        =>
        /\ has_changed <=> \E j \in 1..(k - 1) : Differs(j)
        /\ change_msgs = ExpectedMsgs(k - 1)
        /\ Len(change_msgs) = Cardinality({ j \in 1..(k - 1) : Differs(j) })
        /\ Completed => k = Len(settings) + 1

\* C13 witness: a completed run over two triplets of which only the second
\* differed, with its single description.
C13_Witness ==
    /\ Completed /\ pc = "exit" /\ Len(settings) = 2
    /\ ~Differs(1) /\ Differs(2)
    /\ has_changed /\ Len(change_msgs) = 1
    /\ change_msgs[1].schema = settings[2].schema

\* C14: a desired value that cannot be encoded as the setting's type does
\* not end the batch: no TypeError leaves main, and every triplet of the
\* list has been read when the run is over (unless the library aborted).
C14_TypeMismatchContinues ==
    bus =>
        /\ err # "TypeError"
        /\ (pc = "done" /\ err # "abort") =>
              \A j \in 1..Len(settings) : HasGet(j)

\* The setting a schema argument names when it is split at its first ':'
\* only: the schema is the first piece, the path all the rest.
FirstColonLocation(arg, key) == << arg[1], Tail(arg), key >>

\* C15: every get_value and set_value call reaches the setting named by
\* the text before the first ':' of the schema argument and by the whole
\* remainder after it as path (no path when there is no ':').
C15_SplitAtFirstColon ==
    \A n \in 1..Len(ops) :
        ops[n].loc = FirstColonLocation(settings[ops[n].j].schema,
                                        settings[ops[n].j].key)

\* C16 as stated: an entry that has disappeared at any point of the scan is
\* never the selected candidate.
C16_AsStated ==
    (pc = "scan" /\ session_pid # NoPid) => ProcOfPid(session_pid).alive

\* C16 amended: an entry whose status file cannot be read when the scan
\* reaches it is skipped: that iteration leaves session_pid alone; and no
\* step of the scan raises.  (An entry that exits after its name was read
\* stays selected.)
C16_UnreadableSkipped ==
    [][ /\ (pc = "scan" /\ i <= Len(procs) /\ i' = i + 1
            /\ ~procs[i].alive) => session_pid' = session_pid
        /\ pc = "scan" => (pc' \in {"scan", "owner"} /\ err' = "")
      ]_vars

\* C16 witness: the only session manager of the listing was gone when the
\* scan reached it; the scan ended without a candidate.
C16_Witness ==
    /\ pc = "owner" /\ err = ""
    /\ Cardinality(Managers) = 1
    /\ \A n \in Managers : ~procs[n].alive
    /\ session_pid = NoPid

\* The owner of the selected candidate could not be looked up: __init__ is
\* past lines 151-155 with a candidate and without a sessionuser.
OwnerLookupFailed ==
    /\ pc \notin {"import", "main", "scan", "owner"}
    /\ HAS_GIO /\ ~bus
    /\ sessionuser = ""

\* C17: when the owner of the selected candidate cannot be looked up, the
\* candidate is not reused and the launcher is called: construction ends
\* with _cleanup true unless new_session or the bus connection fails.
C17_OwnerFailureFallsBack ==
    OwnerLookupFailed =>
        /\ launched = 1
        /\ envread = {}
        /\ Resolved => _cleanup
        /\ InitFailed => err \in LaunchErrors \cup {"GLib.Error"}

\* C18: with an ephemeral daemon SIGTERM is sent only when no triplet is
\* left unprocessed, so no get_value or set_value call follows it, and it
\* has been sent when the result is reported.
C18_SignalAfterBatch ==
    _cleanup =>
        /\ (pc \in {"sleep", "kill"} \/ signals # << >>) =>
              k > Len(settings)
        /\ signals # << >> => pc \in {"exit", "done"}
        /\ (pc = "exit" /\ err = "") => signals = << session_pid >>

\* Triplet j is the last of the list with its schema argument and key.
LastNaming(j) ==
    \A m \in (j + 1)..Len(settings) :
        ~(/\ settings[m].schema = settings[j].schema
          /\ settings[m].key = settings[j].key)

\* C19: after a completed apply-mode run every setting named in the list
\* holds the desired value of the last triplet naming it (as encoded for
\* the setting's type), a setting the list does not name is not written,
\* and a triplet whose current value already was the desired one causes no
\* write.
C19_FinalStore ==
    (Completed /\ ~check_mode) =>
        /\ \A j \in 1..Len(settings) :
              LastNaming(j) =>
                LET l == FirstColonLocation(settings[j].schema,
                                            settings[j].key)
                IN  /\ l \in DOMAIN store
                    /\ store[l] = Variant(store0[l].t, settings[j].value).val
        /\ \A l \in DOMAIN store :
              (\A j \in 1..Len(settings) :
                  l # FirstColonLocation(settings[j].schema,
                                         settings[j].key)) =>
                 /\ store[l] = store0[l]
                 /\ \A n \in 1..Len(ops) :
                       ~(ops[n].op = "set" /\ ops[n].loc = l)
        /\ \A j \in 1..Len(settings) :
              (HasGet(j) /\ ~Differs(j)) => ~HasSet(j)

====
